---- MODULE Spec2Model ----
(***************************************************************************)
(* Model of reproducibility.py: digest_files, digest_archive,              *)
(* compare_digests and test_reproducibility.                               *)
(*                                                                         *)
(* A Python str / bytes value is a sequence of one-character strings, so   *)
(* that concatenation, prefixes and the code-point order used by           *)
(* list.sort() are computed and not assumed.                               *)
(***************************************************************************)
EXTENDS Integers, Sequences, FiniteSets, TLC

VARIABLES fs, left, output_files, output_archives, pc, digests1, digests2,
          result, trace, call

vars == <<fs, left, output_files, output_archives, pc, digests1, digests2,
          result, trace, call>>

-----------------------------------------------------------------------------
(* Bounds of the model.                                                    *)

\* longest list of paths handed to digest_files by the harness
MaxPaths == 2
\* recursion depth granted to digest_files (deeper than every tree modelled)
MaxDepth == 4
\* symbolic links the kernel follows while resolving one path (ELOOP beyond)
MaxSymlinks == 3
\* most keys of a digest map handed to compare_digests by the harness
MaxKeys == 2

-----------------------------------------------------------------------------
(* Characters and strings.                                                 *)

\* the printable ASCII characters, code points 32..126 in order (code point
\* 96 is spelled out: it is not used by the model)
Printable ==
  << " ", "!", "\"", "#", "$", "%", "&", "'", "(", ")", "*", "+", ",", "-",
     ".", "/", "0", "1", "2", "3", "4", "5", "6", "7", "8", "9", ":", ";",
     "<", "=", ">", "?", "@", "A", "B", "C", "D", "E", "F", "G", "H", "I",
     "J", "K", "L", "M", "N", "O", "P", "Q", "R", "S", "T", "U", "V", "W",
     "X", "Y", "Z", "[", "\\", "]", "^", "_", "backtick", "a", "b", "c", "d", "e",
     "f", "g", "h", "i", "j", "k", "l", "m", "n", "o", "p", "q", "r", "s",
     "t", "u", "v", "w", "x", "y", "z", "{", "|", "}", "~" >>

\* ord(c): the code point of a character
Ord(c) == 31 + (CHOOSE i \in 1..Len(Printable) : Printable[i] = c)

\* Python's str < str: lexicographic by code point, a proper prefix first
RECURSIVE StrLess(_, _)
StrLess(a, b) ==
  IF b = <<>> THEN FALSE
  ELSE IF a = <<>> THEN TRUE
  ELSE IF Head(a) = Head(b) THEN StrLess(Tail(a), Tail(b))
  ELSE Ord(Head(a)) < Ord(Head(b))

\* s.endswith(suffix)
EndsWith(s, suffix) ==
  /\ Len(s) >= Len(suffix)
  /\ SubSeq(s, Len(s) - Len(suffix) + 1, Len(s)) = suffix

\* s.startswith(prefix)
StartsWith(s, prefix) ==
  /\ Len(s) >= Len(prefix)
  /\ SubSeq(s, 1, Len(prefix)) = prefix

\* str(n) for a natural number n
RECURSIVE IntToStr(_)
IntToStr(n) ==
  IF n < 10 THEN << Printable[17 + n] >>
  ELSE IntToStr(n \div 10) \o << Printable[17 + (n % 10)] >>

-----------------------------------------------------------------------------
(* Hashing.  hashlib.sha256 is a library: its hexdigest is modelled as an  *)
(* injective map from the bytes fed to it to a lowercase hexadecimal       *)
(* string (collision resistance), here the hexadecimal writing of the      *)
(* bytes.  Nothing below depends on the digest's length.                   *)

HexDigits ==
  << "0", "1", "2", "3", "4", "5", "6", "7", "8", "9",
     "a", "b", "c", "d", "e", "f" >>

RECURSIVE hexdigest(_)
hexdigest(m) ==
  IF m = <<>> THEN <<>>
  ELSE << HexDigits[(Ord(Head(m)) \div 16) + 1],
          HexDigits[(Ord(Head(m)) % 16) + 1] >> \o hexdigest(Tail(m))

BUF_SIZE == 65536

\* the read loop shared by _digest_file and _digest_zip_archive:
\* buf = f.read(BUF_SIZE) until empty, m.update(buf) for each chunk
RECURSIVE ReadLoop(_, _)
ReadLoop(m, rest) ==
  IF rest = <<>> THEN m
  ELSE LET n == IF Len(rest) < BUF_SIZE THEN Len(rest) ELSE BUF_SIZE
       IN  ReadLoop(m \o SubSeq(rest, 1, n), SubSeq(rest, n + 1, Len(rest)))

\* _digest_string(s): sha256 of s.encode('utf8'); the model's strings are
\* ASCII, whose UTF-8 encoding is the string's own bytes
_digest_string(s) == hexdigest(s)

\* json.dumps of a str: quoted, with the quote and the backslash escaped
RECURSIVE JsonEscape(_)
JsonEscape(s) ==
  IF s = <<>> THEN <<>>
  ELSE (IF Head(s) \in {"\"", "\\"} THEN << "\\", Head(s) >> ELSE << Head(s) >>)
       \o JsonEscape(Tail(s))

\* json.dumps of a list: "[" item ", " item ... "]"
RECURSIVE JsonItems(_)
JsonItems(items) ==
  IF items = <<>> THEN <<>>
  ELSE IF Len(items) = 1 THEN Head(items)
  ELSE Head(items) \o << ",", " " >> \o JsonItems(Tail(items))

JsonDumpsStrList(names) ==
  << "[" >>
  \o JsonItems([i \in 1..Len(names) |->
                  << "\"" >> \o JsonEscape(names[i]) \o << "\"" >>])
  \o << "]" >>

JsonDumpsIntList(ns) ==
  << "[" >> \o JsonItems([i \in 1..Len(ns) |-> IntToStr(ns[i])]) \o << "]" >>

-----------------------------------------------------------------------------
(* Python dicts: functions from keys (strings) to values.                  *)

EmptyDict == [k \in {} |-> <<>>]

\* d[k] = v
DictPut(d, k, v) == [x \in DOMAIN d \cup {k} |-> IF x = k THEN v ELSE d[x]]

\* {**b}: the dict built so far is dropped (a bug digest_files could have)
DictMergeReplace(a, b) == b

\* {**a, **b}: b's value wins on a shared key
DictMerge(a, b) ==
  [x \in DOMAIN a \cup DOMAIN b |-> IF x \in DOMAIN b THEN b[x] ELSE a[x]]

\* d.get(k): the value, or None; None is kept apart from every string
None == << "None" >>
Some(v) == << "Some", v >>
DictGet(d, k) == IF k \in DOMAIN d THEN Some(d[k]) ELSE None

\* list.sort() of a list without repeated items, given as the set of its
\* items: the ascending sequence by code point
RECURSIVE SortStrings(_)
SortStrings(S) ==
  IF S = {} THEN <<>>
  ELSE LET least == CHOOSE a \in S : \A b \in S \ {a} : StrLess(a, b)
       IN  << least >> \o SortStrings(S \ {least})

-----------------------------------------------------------------------------
(* The filesystem the os module works on.  A state of the filesystem is a  *)
(* function from the canonical relative path of each existing node (no     *)
(* symbolic link among its parent components) to the node:                 *)
(*   [type |-> "file", data |-> its bytes]                                 *)
(*   [type |-> "link", data |-> its target string]                         *)
(*   [type |-> "dir",  data |-> <<>>]                                      *)
(* The empty path is the working directory.                                *)

File(bytes) == [type |-> "file", data |-> bytes]
Link(target) == [type |-> "link", data |-> target]
Dir == [type |-> "dir", data |-> <<>>]

\* os.path.join(a, b)
PathJoin(a, b) ==
  IF b # <<>> /\ Head(b) = "/" THEN b
  ELSE IF a = <<>> \/ a[Len(a)] = "/" THEN a \o b
  ELSE a \o << "/" >> \o b

\* the components of a path, between its slashes
RECURSIVE SplitPath(_, _)
SplitPath(p, cur) ==
  IF p = <<>> THEN (IF cur = <<>> THEN <<>> ELSE << cur >>)
  ELSE IF Head(p) = "/"
       THEN (IF cur = <<>> THEN <<>> ELSE << cur >>) \o SplitPath(Tail(p), <<>>)
  ELSE SplitPath(Tail(p), Append(cur, Head(p)))

\* the kernel's path resolution from the directory cur: follows every
\* symbolic link among the parent components, and the last one when
\* followLast (stat) but not otherwise (lstat)
RECURSIVE Walk(_, _, _, _, _)
Walk(f, cur, comps, followLast, hops) ==
  IF comps = <<>> THEN [ok |-> TRUE, path |-> cur]
  ELSE LET c == Head(comps)
           rest == Tail(comps)
           cand == PathJoin(cur, c)
       IN  IF c = << "." >> THEN Walk(f, cur, rest, followLast, hops)
           ELSE IF cand \notin DOMAIN f THEN [ok |-> FALSE, path |-> cand]
           ELSE IF f[cand].type = "link" /\ (rest # <<>> \/ followLast)
                THEN IF hops = 0 THEN [ok |-> FALSE, path |-> cand]
                     ELSE Walk(f, cur, SplitPath(f[cand].data, <<>>) \o rest,
                               followLast, hops - 1)
           ELSE IF rest # <<>> /\ f[cand].type # "dir"
                THEN [ok |-> FALSE, path |-> cand]
           ELSE Walk(f, cand, rest, followLast, hops)

Lstat(f, p) == Walk(f, <<>>, SplitPath(p, <<>>), FALSE, MaxSymlinks)
Stat(f, p) == Walk(f, <<>>, SplitPath(p, <<>>), TRUE, MaxSymlinks)

\* os.path.isdir(p): follows links
isdir(f, p) ==
  LET r == Stat(f, p)
  IN  r.ok /\ (r.path = <<>> \/ f[r.path].type = "dir")

\* islink consulted after isdir: a link to a directory counts as a
\* directory (a bug digest_files could have)
islink_after_isdir(f, p) ==
  LET r == Lstat(f, p)
  IN  r.ok /\ r.path # <<>> /\ f[r.path].type = "link" /\ ~isdir(f, p)

\* os.path.islink(p)
islink(f, p) ==
  LET r == Lstat(f, p)
  IN  r.ok /\ r.path # <<>> /\ f[r.path].type = "link"

\* os.readlink(p)
readlink(f, p) == f[Lstat(f, p).path].data

\* the names of the entries of the directory whose canonical path is d
ChildNames(f, d) ==
  IF d = <<>> THEN { q \in DOMAIN f : \A i \in 1..Len(q) : q[i] # "/" }
  ELSE { SubSeq(q, Len(d) + 2, Len(q)) :
           q \in { x \in DOMAIN f :
                     /\ Len(x) > Len(d) + 1
                     /\ StartsWith(x, d \o << "/" >>)
                     /\ \A i \in (Len(d) + 2)..Len(x) : x[i] # "/" } }

Dirs(f) == { d \in DOMAIN f : f[d].type = "dir" }

\* the orders of the items of a set
Perms(S) ==
  { s \in [1..Cardinality(S) -> S] :
      \A i, j \in 1..Cardinality(S) : i # j => s[i] # s[j] }

\* os.listdir gives the entries in arbitrary order: one order per directory
ListdirOrders(f) ==
  { ls \in [Dirs(f) -> UNION { Perms(ChildNames(f, d)) : d \in Dirs(f) }] :
      \A d \in Dirs(f) : ls[d] \in Perms(ChildNames(f, d)) }

\* os.listdir(p), under the order ls
listdir(f, ls, p) ==
  LET d == Stat(f, p).path
  IN  IF d \in DOMAIN ls THEN ls[d] ELSE SortStrings(ChildNames(f, d))

\* open(p, 'rb'): the bytes, or an OSError when the path does not resolve
\* to a regular file
CanOpen(f, p) ==
  LET r == Stat(f, p)
  IN  r.ok /\ r.path # <<>> /\ f[r.path].type = "file"

FileBytes(f, p) == f[Stat(f, p).path].data

-----------------------------------------------------------------------------
(* digest_files                                                            *)

SHA256_TAG == << "s", "h", "a", "2", "5", "6", "=" >>
SYMLINK_TAG == << "s", "y", "m", "l", "i", "n", "k", "=" >>

\* _digest_file(file); called only where CanOpen holds
_digest_file(f, file) == hexdigest(ReadLoop(<<>>, FileBytes(f, file)))

\* What a call of digest_files yields: err is "ok" or the exception raised,
\* digests the dict built so far (returned only when err = "ok"), opened /
\* listed the paths given to open() and to os.listdir().
NoDigests == [err |-> "ok", digests |-> EmptyDict, opened |-> {}, listed |-> {}]

\* the loop of digest_files over files, acc holding digests so far; depth
\* is the recursion depth left
RECURSIVE digest_files_from(_, _, _, _, _)
digest_files_from(f, ls, files, acc, depth) ==
  IF files = <<>> \/ acc.err # "ok" THEN acc
  ELSE LET file == Head(files) IN
    IF islink(f, file)
    THEN digest_files_from(f, ls, Tail(files),
           [acc EXCEPT !.digests =
              DictMerge(@, DictPut(EmptyDict, file,
                                   SYMLINK_TAG \o readlink(f, file)))],
           depth)
    ELSE IF isdir(f, file)
    THEN IF depth = 0 THEN [acc EXCEPT !.err = "RecursionError"]
         ELSE LET names == listdir(f, ls, file)
                  sub == digest_files_from(f, ls,
                           [i \in 1..Len(names) |-> PathJoin(file, names[i])],
                           NoDigests, depth - 1)
              IN  digest_files_from(f, ls, Tail(files),
                    [err |-> sub.err,
                     digests |-> DictMerge(acc.digests, sub.digests),
                     opened |-> acc.opened \cup sub.opened,
                     listed |-> acc.listed \cup {file} \cup sub.listed],
                    depth)
    ELSE IF ~CanOpen(f, file)
    THEN [acc EXCEPT !.err = "OSError", !.opened = @ \cup {file}]
    ELSE digest_files_from(f, ls, Tail(files),
           [acc EXCEPT !.digests =
              DictMerge(@, DictPut(EmptyDict, file,
                                   SHA256_TAG \o _digest_file(f, file))),
                       !.opened = @ \cup {file}],
           depth)

digest_files(f, ls, files) == digest_files_from(f, ls, files, NoDigests, MaxDepth)

-----------------------------------------------------------------------------
(* zipfile.  The library's parser is a function from an archive file's raw *)
(* bytes to its stored entries (ZipInfo: filename, date_time) and their    *)
(* decompressed data; the model knows it on the archives below and raises  *)
(* BadZipFile on every other file.                                         *)

T1 == << 2020, 1, 1, 0, 0, 0 >>
T2 == << 2020, 1, 1, 0, 0, 2 >>

Entry(name, time, bytes) == [filename |-> name, date_time |-> time, data |-> bytes]

Raw(n) == << "P", "K", n >>

NAME_x == << "x" >>
NAME_y == << "y" >>
NAME_namelist == << "n", "a", "m", "e", "l", "i", "s", "t" >>
NAME_x_date_time == << "x", "#", "d", "a", "t", "e", "_", "t", "i", "m", "e" >>

ZipArchives ==
  << [raw |-> Raw("0"), infolist |-> << >>],
     [raw |-> Raw("1"), infolist |-> << Entry(NAME_x, T1, << "1" >>) >>],
     [raw |-> Raw("2"), infolist |-> << Entry(NAME_x, T2, << "1" >>) >>],
     [raw |-> Raw("3"), infolist |-> << Entry(NAME_x, T1, << "1" >>),
                                        Entry(NAME_y, T1, << "2" >>) >>],
     [raw |-> Raw("4"), infolist |-> << Entry(NAME_y, T1, << "2" >>),
                                        Entry(NAME_x, T1, << "1" >>) >>],
     [raw |-> Raw("5"), infolist |-> << Entry(NAME_x, T1, << "1" >>),
                                        Entry(NAME_x, T1, << "2" >>) >>],
     [raw |-> Raw("6"), infolist |-> << Entry(NAME_x, T2, << "1" >>),
                                        Entry(NAME_x, T1, << "2" >>) >>],
     [raw |-> Raw("7"), infolist |-> << Entry(NAME_namelist, T1, << "1" >>) >>],
     [raw |-> Raw("8"), infolist |-> << Entry(NAME_x, T1, << "1" >>),
                                        Entry(NAME_x_date_time, T1, << "2" >>) >>],
     [raw |-> Raw("9"), infolist |-> << Entry(NAME_x, T1, << "2" >>) >>] >>

IsZip(bytes) == \E i \in 1..Len(ZipArchives) : ZipArchives[i].raw = bytes

\* ZipFile.infolist(): the entries in stored order
ZipInfolist(bytes) ==
  ZipArchives[CHOOSE i \in 1..Len(ZipArchives) : ZipArchives[i].raw = bytes].infolist

\* ZipFile.open(name).read(): getinfo(name) is the LAST entry stored under
\* that name (NameToInfo keeps one ZipInfo per name)
ZipOpen(infolist, name) ==
  LET last == CHOOSE i \in 1..Len(infolist) :
                /\ infolist[i].filename = name
                /\ \A j \in (i + 1)..Len(infolist) : infolist[j].filename # name
  IN  infolist[last].data

-----------------------------------------------------------------------------
(* digest_archive                                                          *)

\* _digest_json(o) for a list of str and for a tuple of int
_digest_json_names(names) == _digest_string(JsonDumpsStrList(names))
_digest_json_ints(ns) == _digest_string(JsonDumpsIntList(ns))

HASH == << "#" >>
NAMELIST_SUFFIX == << "#", "n", "a", "m", "e", "l", "i", "s", "t" >>
DATE_TIME_SUFFIX == << "#", "d", "a", "t", "e", "_", "t", "i", "m", "e" >>

\* f'{archive}#namelist', f'{archive}#{name}#date_time', f'{archive}#{name}'
NamelistKey(archive) == archive \o NAMELIST_SUFFIX
DateTimeKey(archive, name) == archive \o HASH \o name \o DATE_TIME_SUFFIX
ContentKey(archive, name) == archive \o HASH \o name

\* the value stored under f'{archive}#{info.filename}' (line 93)
EntryContentValue(bytes) == hexdigest(ReadLoop(<<>>, bytes))

\* the loop over ar.infolist() (lines 82-93), rest being the entries left
RECURSIVE zip_entries_from(_, _, _, _)
zip_entries_from(archive, infolist, rest, digests) ==
  IF rest = <<>> THEN digests
  ELSE LET info == Head(rest)
           withTime == DictPut(digests, DateTimeKey(archive, info.filename),
                               _digest_json_ints(info.date_time))
           withData == DictPut(withTime, ContentKey(archive, info.filename),
                               EntryContentValue(ZipOpen(infolist, info.filename)))
       IN  zip_entries_from(archive, infolist, Tail(rest), withData)

_digest_zip_archive(f, archive) ==
  IF ~CanOpen(f, archive) THEN [err |-> "OSError", digests |-> EmptyDict]
  ELSE IF ~IsZip(FileBytes(f, archive))
  THEN [err |-> "BadZipFile", digests |-> EmptyDict]
  ELSE LET infolist == ZipInfolist(FileBytes(f, archive))
           names == [i \in 1..Len(infolist) |-> infolist[i].filename]
           first == DictPut(EmptyDict, NamelistKey(archive),
                            _digest_json_names(names))
       IN  [err |-> "ok",
            digests |-> zip_entries_from(archive, infolist, infolist, first)]

DOT_ZIP == << ".", "z", "i", "p" >>
DOT_JAR == << ".", "j", "a", "r" >>
DOT_WAR == << ".", "w", "a", "r" >>

digest_archive(f, archive) ==
  IF EndsWith(archive, DOT_ZIP) \/ EndsWith(archive, DOT_JAR)
     \/ EndsWith(archive, DOT_WAR)
  THEN _digest_zip_archive(f, archive)
  ELSE [err |-> "Exception", digests |-> EmptyDict]

-----------------------------------------------------------------------------
(* Mappings: what compare_digests is given.  A mapping is the list of the  *)
(* dicts of a ChainMap (ChainMap.maps); a plain dict is a list of one.     *)

\* m.keys()
MappingKeys(m) == UNION { DOMAIN m[i] : i \in 1..Len(m) }

\* m.get(key): the first dict of the chain that has the key decides
MappingGet(m, key) ==
  IF key \notin MappingKeys(m) THEN None
  ELSE LET i == CHOOSE i \in 1..Len(m) :
                  /\ key \in DOMAIN m[i]
                  /\ \A j \in 1..(i - 1) : key \notin DOMAIN m[j]
       IN  Some(m[i][key])

\* the keys of digests1 alone are walked (a bug compare_digests could have)
compare_digests_first_keys(d1, d2) ==
  SortStrings({ key \in MappingKeys(d1) : MappingGet(d1, key) # MappingGet(d2, key) })

\* compare_digests(digests1, digests2)
compare_digests(d1, d2) ==
  LET all_keys == MappingKeys(d1) \cup MappingKeys(d2)
      differences == { key \in all_keys : MappingGet(d1, key) # MappingGet(d2, key) }
  IN  SortStrings(differences)

-----------------------------------------------------------------------------
(* test_reproducibility                                                    *)

\* [digest_archive(ar) for ar in output_archives]: the first exception ends
\* the comprehension
RECURSIVE digest_archives_from(_, _, _)
digest_archives_from(f, archives, acc) ==
  IF archives = <<>> \/ acc.err # "ok" THEN acc
  ELSE LET d == digest_archive(f, Head(archives))
       IN  digest_archives_from(f, Tail(archives),
             [err |-> d.err, maps |-> Append(acc.maps, d.digests)])

\* digest_outputs(): ChainMap(digest_files(output_files + output_archives),
\*                            *[digest_archive(ar) for ar in output_archives])
digest_outputs(f, ls, files, archives) ==
  LET whole == digest_files(f, ls, files \o archives)
  IN  IF whole.err # "ok" THEN [err |-> whole.err, maps |-> <<>>]
      ELSE digest_archives_from(f, archives,
             [err |-> "ok", maps |-> << whole.digests >>])

-----------------------------------------------------------------------------
(* The outputs the operation under test may leave behind, and the outputs  *)
(* a caller may declare.                                                   *)

OUT_TXT == << "o", "u", "t", ".", "t", "x", "t" >>
D == << "d" >>
D_F == << "d", "/", "f" >>
D_L == << "d", "/", "l" >>
A_ZIP == << "a", ".", "z", "i", "p" >>
A_ZIP_X == << "a", ".", "z", "i", "p", "#", "x" >>

Absent == << "absent" >>

\* a filesystem: out.txt holding txt, the directory d with the file d/f
\* holding dfile and the link d/l to dlink, the archive a.zip with the raw
\* bytes zip, and a regular file named "a.zip#x" holding extra; a part that
\* is Absent does not exist
World(txt, dfile, dlink, zip, extra) ==
  LET paths == (IF txt = Absent THEN {} ELSE {OUT_TXT})
               \cup {D}
               \cup (IF dfile = Absent THEN {} ELSE {D_F})
               \cup (IF dlink = Absent THEN {} ELSE {D_L})
               \cup (IF zip = Absent THEN {} ELSE {A_ZIP})
               \cup (IF extra = Absent THEN {} ELSE {A_ZIP_X})
  IN  [p \in paths |->
         IF p = OUT_TXT THEN File(txt)
         ELSE IF p = D THEN Dir
         ELSE IF p = D_F THEN File(dfile)
         ELSE IF p = D_L THEN Link(dlink)
         ELSE IF p = A_ZIP THEN File(zip)
         ELSE File(extra)]

Outcomes ==
  { World(<< "A" >>, << "A" >>, Absent, Raw("1"), Absent),
    World(<< "B" >>, << "A" >>, Absent, Raw("1"), Absent),
    World(<< "A" >>, << "B" >>, Absent, Raw("1"), Absent),
    World(<< "A" >>, Absent, Absent, Raw("1"), Absent),
    World(Absent, << "A" >>, Absent, Raw("1"), Absent),
    World(<< "A" >>, << "A" >>, << "." >>, Raw("1"), Absent),
    World(<< "A" >>, << "A" >>, << "f" >>, Raw("1"), Absent),
    World(<< "A" >>, << "A" >>, << "n", "o" >>, Raw("1"), Absent),
    World(<< "A" >>, << "A" >>, Absent, Raw("1"), << "1" >>),
    World(<< "A" >>, << "A" >>, Absent, Raw("9"), << "1" >>) }
  \cup { World(<< "A" >>, << "A" >>, Absent, Raw(n), Absent) :
           n \in { "0", "2", "3", "4", "5", "6", "7", "8", "9" } }

\* (output_files, output_archives) as a caller may give them
Declarations ==
  { << << OUT_TXT >>, << >> >>,
    << << >>, << A_ZIP >> >>,
    << << D >>, << A_ZIP >> >>,
    << << OUT_TXT, D >>, << >> >>,
    << << A_ZIP_X >>, << A_ZIP >> >>,
    << << OUT_TXT >>, << OUT_TXT >> >> }

NoFiles == [p \in {} |-> Dir]
Unset == [err |-> "unset", maps |-> <<>>]
NoCall == [fn |-> "none"]

-----------------------------------------------------------------------------
(* test_reproducibility(func, output_files, output_archives), one action   *)
(* per statement of lines 160-164.  pc names the line about to run.        *)

Init ==
  /\ fs = NoFiles
  /\ left = <<>>
  /\ \E decl \in Declarations :
       /\ output_files = decl[1]
       /\ output_archives = decl[2]
  /\ pc = "line160"
  /\ digests1 = Unset
  /\ digests2 = Unset
  /\ result = None
  /\ trace = <<>>
  /\ call = NoCall

\* func() returns: the operation has left some outputs behind
FuncReturns(at, next) ==
  /\ pc = at
  /\ \E out \in Outcomes : fs' = out
  /\ left' = Append(left, fs')
  /\ trace' = Append(trace, "func")
  /\ pc' = next
  /\ UNCHANGED <<output_files, output_archives, digests1, digests2, result, call>>

\* func() raises (subprocess.run(..., check=True) on a non-zero exit): the
\* exception leaves test_reproducibility at once
FuncRaises(at) ==
  /\ pc = at
  /\ \E out \in Outcomes : fs' = out
  /\ trace' = Append(trace, "func raised")
  /\ pc' = "raised"
  /\ UNCHANGED <<left, output_files, output_archives, digests1, digests2,
                 result, call>>

\* line 160
Func1 == FuncReturns("line160", "line161")
Func1Raises == FuncRaises("line160")

\* line 161: digests1 = digest_outputs()
Snapshot1 ==
  /\ pc = "line161"
  /\ \E ls \in ListdirOrders(fs) :
       LET d == digest_outputs(fs, ls, output_files, output_archives)
       IN  /\ digests1' = (IF d.err = "ok" THEN d ELSE digests1)
           /\ pc' = (IF d.err = "ok" THEN "line162" ELSE "raised")
  /\ trace' = Append(trace, "digest_outputs")
  /\ UNCHANGED <<fs, left, output_files, output_archives, digests2, result, call>>

\* the failure of the second func() is swallowed and the run goes on (a bug
\* test_reproducibility could have)
Func2RaisesSwallowed ==
  /\ pc = "line162"
  /\ \E out \in Outcomes : fs' = out
  /\ trace' = Append(trace, "func raised")
  /\ pc' = "line163"
  /\ UNCHANGED <<left, output_files, output_archives, digests1, digests2,
                 result, call>>

\* line 162
Func2 == FuncReturns("line162", "line163")
Func2Raises == FuncRaises("line162")

\* the second snapshot reuses the first (a cache across invocations; a bug
\* test_reproducibility could have)
Snapshot2Cached ==
  /\ pc = "line163"
  /\ digests2' = digests1
  /\ pc' = "line164"
  /\ trace' = Append(trace, "digest_outputs")
  /\ UNCHANGED <<fs, left, output_files, output_archives, digests1, result, call>>

\* line 163: digests2 = digest_outputs()
Snapshot2 ==
  /\ pc = "line163"
  /\ \E ls \in ListdirOrders(fs) :
       LET d == digest_outputs(fs, ls, output_files, output_archives)
       IN  /\ digests2' = (IF d.err = "ok" THEN d ELSE digests2)
           /\ pc' = (IF d.err = "ok" THEN "line164" ELSE "raised")
  /\ trace' = Append(trace, "digest_outputs")
  /\ UNCHANGED <<fs, left, output_files, output_archives, digests1, result, call>>

\* line 164: return compare_digests(digests1, digests2)
Return ==
  /\ pc = "line164"
  /\ result' = Some(compare_digests(digests1.maps, digests2.maps))
  /\ trace' = Append(trace, "compare_digests")
  /\ pc' = "returned"
  /\ UNCHANGED <<fs, left, output_files, output_archives, digests1, digests2, call>>

Next ==
  \/ Func1
  \/ Func1Raises
  \/ Snapshot1
  \/ Func2
  \/ Func2Raises
  \/ Snapshot2
  \/ Return

Spec == Init /\ [][Next]_vars

-----------------------------------------------------------------------------
(* The functions called on their own: the arguments are drawn in the       *)
(* initial state and one action makes the call.                            *)

Idle ==
  /\ left = <<>>
  /\ output_files = <<>>
  /\ output_archives = <<>>
  /\ pc = "none"
  /\ digests1 = Unset
  /\ digests2 = Unset
  /\ result = None
  /\ trace = <<>>

\* sequences of at most n items of S
SeqsUpTo(S, n) == UNION { [1..k -> S] : k \in 0..n }

InputPaths == { OUT_TXT, D, D_F, D_L, A_ZIP, A_ZIP_X }

\* digest_files(files) on a filesystem the operation may have left
InitFiles ==
  /\ Idle
  /\ fs \in Outcomes
  /\ \E files \in SeqsUpTo(InputPaths, MaxPaths) :
       call = [fn |-> "digest_files", files |-> files, done |-> FALSE,
               ls |-> <<>>, ret |-> NoDigests]

CallDigestFiles ==
  /\ call.fn = "digest_files"
  /\ ~call.done
  /\ \E ls \in ListdirOrders(fs) :
       call' = [call EXCEPT !.done = TRUE, !.ls = ls,
                            !.ret = digest_files(fs, ls, call.files)]
  /\ UNCHANGED <<fs, left, output_files, output_archives, pc, digests1,
                 digests2, result, trace>>

SpecFiles == InitFiles /\ [][CallDigestFiles]_vars

\* digest_archive(archive)
InitArchive ==
  /\ Idle
  /\ fs \in Outcomes
  /\ \E archive \in InputPaths :
       call = [fn |-> "digest_archive", archive |-> archive, done |-> FALSE,
               ret |-> [err |-> "ok", digests |-> EmptyDict]]

CallDigestArchive ==
  /\ call.fn = "digest_archive"
  /\ ~call.done
  /\ call' = [call EXCEPT !.done = TRUE, !.ret = digest_archive(fs, call.archive)]
  /\ UNCHANGED <<fs, left, output_files, output_archives, pc, digests1,
                 digests2, result, trace>>

SpecArchive == InitArchive /\ [][CallDigestArchive]_vars

\* compare_digests(digests1, digests2) on any two dicts of at most MaxKeys
\* keys
SampleKeys ==
  { A_ZIP, A_ZIP_X, << "B" >>, << "b" >> }

SampleValues ==
  { SHA256_TAG \o << "4", "1" >>, << >>, << "N", "o", "n", "e" >> }

SampleDicts ==
  UNION { [K -> SampleValues] :
            K \in { K \in SUBSET SampleKeys : Cardinality(K) <= MaxKeys } }

InitCompare ==
  /\ Idle
  /\ fs = NoFiles
  /\ \E a \in SampleDicts, b \in SampleDicts :
       call = [fn |-> "compare_digests", a |-> a, b |-> b, done |-> FALSE,
               ret |-> <<>>]

CallCompareDigests ==
  /\ call.fn = "compare_digests"
  /\ ~call.done
  /\ call' = [call EXCEPT !.done = TRUE,
                          !.ret = compare_digests(<< call.a >>, << call.b >>)]
  /\ UNCHANGED <<fs, left, output_files, output_archives, pc, digests1,
                 digests2, result, trace>>

SpecCompare == InitCompare /\ [][CallCompareDigests]_vars

-----------------------------------------------------------------------------
(* Properties.                                                             *)

\* the files and links digest_files(files) is to cover on f: the inputs
\* that are not directories and everything below the inputs that are
Leaves(f, files) ==
  { q \in DOMAIN f :
      /\ f[q].type # "dir"
      /\ \E i \in 1..Len(files) :
           \/ files[i] = q
           \/ /\ files[i] \in DOMAIN f
              /\ f[files[i]].type = "dir"
              /\ StartsWith(q, files[i] \o << "/" >>) }

\* one key per leaf: the tagged hash of a file's bytes, the tagged target of
\* a link
LeafDigests(f, files) ==
  [q \in Leaves(f, files) |->
     IF f[q].type = "link" THEN SYMLINK_TAG \o f[q].data
     ELSE SHA256_TAG \o hexdigest(f[q].data)]

Snapshots == { d \in {digests1, digests2} : d.err = "ok" }

\* C1: a func() that raises, on the first or the second call, ends the run
\* at once: it is the last thing that happened, no snapshot of that round
\* and no comparison exist, and nothing is returned.
C1_FailurePropagates ==
  \A i \in 1..Len(trace) :
    trace[i] = "func raised" =>
      /\ i = Len(trace)
      /\ pc = "raised"
      /\ result = None
      /\ digests2 = Unset
      /\ (i = 1 => digests1 = Unset)

C1_Witness ==
  /\ pc = "raised"
  /\ Len(trace) = 3
  /\ trace[3] = "func raised"
  /\ digests1.err = "ok"

ExactSequence ==
  << "func", "digest_outputs", "func", "digest_outputs", "compare_digests" >>

\* C2: the calls made are always a prefix of func, digest_outputs, func,
\* digest_outputs, compare_digests; a run that returns made all five, its
\* snapshot A is the digest of what invocation 1 left (whatever invocation 2
\* did afterwards), its snapshot B the digest of what invocation 2 left, and
\* its result their comparison.
C2_ExactSequence ==
  /\ Len(trace) <= Len(ExactSequence)
  /\ \A i \in 1..Len(trace) :
       \/ trace[i] = ExactSequence[i]
       \/ trace[i] = "func raised" /\ ExactSequence[i] = "func"
  /\ pc = "returned" =>
       /\ trace = ExactSequence
       /\ Len(left) = 2
       /\ \A ls \in ListdirOrders(left[1]) :
            digests1 = digest_outputs(left[1], ls, output_files, output_archives)
       /\ \A ls \in ListdirOrders(left[2]) :
            digests2 = digest_outputs(left[2], ls, output_files, output_archives)
       /\ result = Some(compare_digests(digests1.maps, digests2.maps))

C2_Witness ==
  /\ pc = "returned"
  /\ left[1] # left[2]
  /\ digests1 # digests2
  /\ result # Some(<<>>)

\* C3: compare_digests(A, B) is strictly ascending by code point and holds
\* exactly the keys of either dict that are in one dict only or carry
\* different values in the two.
C3_CompareIsSortedDifference ==
  (call.fn = "compare_digests" /\ call.done) =>
    /\ \A i \in 1..(Len(call.ret) - 1) : StrLess(call.ret[i], call.ret[i + 1])
    /\ { call.ret[i] : i \in 1..Len(call.ret) }
         = { k \in DOMAIN call.a \cup DOMAIN call.b :
               \/ k \notin DOMAIN call.a
               \/ k \notin DOMAIN call.b
               \/ call.a[k] # call.b[k] }

C3_Witness ==
  /\ call.fn = "compare_digests"
  /\ call.done
  /\ Len(call.ret) = 2
  /\ \E k \in DOMAIN call.b : k \notin DOMAIN call.a
  /\ \E k \in DOMAIN call.a \cap DOMAIN call.b : call.a[k] = call.b[k]

\* C8: digest_files ends without running out of recursion depth, gives
\* every link it meets the one entry 'symlink=' + target, and neither opens
\* nor lists a link or anything reached through one.
C8_SymlinksNeverFollowed ==
  (call.fn = "digest_files" /\ call.done) =>
    LET r == call.ret
        links == { q \in DOMAIN fs : fs[q].type = "link" }
    IN  /\ r.err # "RecursionError"
        /\ \A p \in r.opened \cup r.listed \cup DOMAIN r.digests :
             \A q \in links :
               /\ ~StartsWith(p, q \o << "/" >>)
               /\ p = q => p \notin r.opened \cup r.listed
        /\ r.err = "ok" =>
             \A q \in links \cap Leaves(fs, call.files) :
               /\ q \in DOMAIN r.digests
               /\ r.digests[q] = SYMLINK_TAG \o fs[q].data

C8_Witness ==
  /\ call.fn = "digest_files"
  /\ call.done
  /\ call.ret.err = "ok"
  /\ D_L \in DOMAIN fs
  /\ fs[D_L] = Link(<< "." >>)
  /\ \E i \in 1..Len(call.files) : call.files[i] = D
  /\ D_L \in DOMAIN call.ret.digests

\* C9: a digest_files that returns gives exactly one key per file or link
\* under its inputs and none per directory, whatever the order of the inputs
\* and of each listing; and for an input that is a directory, the directory
\* alone and its children given as joined paths, in any order, digest alike.
C9_FlatteningAndOrderIndependence ==
  (call.fn = "digest_files" /\ call.done /\ call.ret.err = "ok") =>
    /\ call.ret.digests = LeafDigests(fs, call.files)
    /\ \A i \in 1..Len(call.files) :
         LET d == call.files[i] IN
           (d \in DOMAIN fs /\ fs[d].type = "dir") =>
             \A order \in Perms(ChildNames(fs, d)), ls \in ListdirOrders(fs) :
               digest_files(fs, ls,
                            [j \in 1..Len(order) |-> PathJoin(d, order[j])]).digests
                 = digest_files(fs, call.ls, << d >>).digests

C9_Witness ==
  /\ call.fn = "digest_files"
  /\ call.done
  /\ call.ret.err = "ok"
  /\ call.files = << OUT_TXT, D >>
  /\ Cardinality(ChildNames(fs, D)) = 2
  /\ call.ls[D] # SortStrings(ChildNames(fs, D))
  /\ Cardinality(DOMAIN call.ret.digests) = 3

\* the entries of the declared archive a as the operation left them in f
Stored(f, a) == ZipInfolist(FileBytes(f, a))

ResultKeys == { result[2][i] : i \in 1..Len(result[2]) }

\* C4: the result names every artifact that differs between what the two
\* invocations left: every file or link under a declared path that is in one
\* state only or differs in content or target, and, for every declared
\* archive, the content key of an entry whose data differs, the date_time
\* key of an entry whose timestamp differs, and the namelist key when the
\* entry names or their order differ.
C4_EveryDifferenceNamed ==
  pc = "returned" =>
    LET declared == output_files \o output_archives
        before == LeafDigests(left[1], declared)
        after == LeafDigests(left[2], declared)
    IN  /\ \A q \in DOMAIN before \cup DOMAIN after :
             (DictGet(before, q) # DictGet(after, q)) => q \in ResultKeys
        /\ \A n \in 1..Len(output_archives) :
             LET a == output_archives[n]
                 e1 == Stored(left[1], a)
                 e2 == Stored(left[2], a)
             IN  /\ [i \in 1..Len(e1) |-> e1[i].filename]
                      # [i \in 1..Len(e2) |-> e2[i].filename]
                    => NamelistKey(a) \in ResultKeys
                 /\ \A i \in 1..Len(e1) :
                      (i <= Len(e2) /\ e1[i].filename = e2[i].filename) =>
                        /\ e1[i].data # e2[i].data
                           => ContentKey(a, e1[i].filename) \in ResultKeys
                        /\ e1[i].date_time # e2[i].date_time
                           => DateTimeKey(a, e1[i].filename) \in ResultKeys

\* C5: the dict digest_archive returns for an archive of n stored entries
\* has exactly 1 + 2*n keys.
C5_ArchiveKeyCount ==
  (call.fn = "digest_archive" /\ call.done /\ call.ret.err = "ok") =>
    Cardinality(DOMAIN call.ret.digests) = 1 + 2 * Len(Stored(fs, call.archive))

\* C6: every value of every dict of every snapshot starts with 'sha256=' or
\* with 'symlink='.
C6_SchemeTagged ==
  \A d \in Snapshots :
    \A i \in 1..Len(d.maps) :
      \A k \in DOMAIN d.maps[i] :
        \/ StartsWith(d.maps[i][k], SHA256_TAG)
        \/ StartsWith(d.maps[i][k], SYMLINK_TAG)

\* C7: the dicts chained into a snapshot share no key, so the snapshot
\* gives every key of every one of them the value that dict holds.
C7_DisjointOverlay ==
  \A d \in Snapshots :
    \A i \in 1..Len(d.maps) :
      \A k \in DOMAIN d.maps[i] :
        /\ \A j \in 1..Len(d.maps) : j # i => k \notin DOMAIN d.maps[j]
        /\ MappingGet(d.maps, k) = Some(d.maps[i][k])

\* C10: with only the archive a declared, and the two invocations leaving a
\* with the same entry names in the same order and the same data in every
\* entry but another timestamp in exactly one entry x, the result is
\* [a, a#x#date_time].
C10_TimestampOnly ==
  (pc = "returned" /\ output_files = <<>> /\ Len(output_archives) = 1) =>
    LET a == output_archives[1]
        e1 == Stored(left[1], a)
        e2 == Stored(left[2], a)
        drifted == { i \in 1..Len(e1) : e1[i].date_time # e2[i].date_time }
    IN  (/\ Len(e1) = Len(e2)
         /\ \A i \in 1..Len(e1) :
              /\ e1[i].filename = e2[i].filename
              /\ e1[i].data = e2[i].data
         /\ Cardinality(drifted) = 1)
        => \A i \in drifted :
             result = Some(<< a, DateTimeKey(a, e1[i].filename) >>)

====
